---- MODULE Spec2Model ----
(***************************************************************************)
(* A model of the record normalization and deduplication pipeline of       *)
(* data_processor.py (class FuneralDataProcessor).                         *)
(*                                                                         *)
(* The table self.df is a record [columns, rows]: columns is the sequence  *)
(* of column labels, rows the sequence of rows in table order, each row a  *)
(* record [index, cells] with the pandas index label of the row and its    *)
(* cells in column order.  A cell is a string or the missing value NaN.    *)
(* Strings are sequences of printable ASCII characters; the Python string  *)
(* methods and the regular expressions of the source are operators on      *)
(* them, computed character by character.                                  *)
(***************************************************************************)
EXTENDS Naturals, Integers, Sequences, FiniteSets, TLC

(***************************************************************************)
(* Bounds of the model.                                                    *)
(***************************************************************************)
\* largest number of rows of an input table of the whole pipeline
MaxRows == 2
\* largest number of rows of an input table of remove_duplicates alone
MaxDedupRows == 3
\* number of times clean_data is called on the same processor
MaxPasses == 2

(***************************************************************************)
(* Characters.                                                             *)
(***************************************************************************)
\* the printable ASCII characters in code point order: 32 .. 95 and 97 .. 126
\* (the grave accent, code 96, cannot be written in a TLA+ string and is
\* not a character of the model)
AsciiLo == " !\"#$%&'()*+,-./0123456789:;<=>?@ABCDEFGHIJKLMNOPQRSTUVWXYZ[\\]^_"
AsciiHi == "abcdefghijklmnopqrstuvwxyz{|}~"

Ch(s, i) == SubSeq(s, i, i)

Chars == { Ch(AsciiLo, i) : i \in 1..Len(AsciiLo) } \cup { Ch(AsciiHi, i) : i \in 1..Len(AsciiHi) }

\* Python ord() and chr() on these characters
ord == [c \in Chars |->
          IF \E i \in 1..Len(AsciiLo) : Ch(AsciiLo, i) = c
          THEN 31 + (CHOOSE i \in 1..Len(AsciiLo) : Ch(AsciiLo, i) = c)
          ELSE 96 + (CHOOSE i \in 1..Len(AsciiHi) : Ch(AsciiHi, i) = c)]

chr(n) == IF n < 96 THEN Ch(AsciiLo, n - 31) ELSE Ch(AsciiHi, n - 96)

IsUpper(c) == ord[c] \in 65..90
IsLower(c) == ord[c] \in 97..122
\* [a-zA-Z]
IsAlpha(c) == IsUpper(c) \/ IsLower(c)
\* \d
IsDigit(c) == ord[c] \in 48..57
\* \s (the only white space among the printable characters is the blank)
IsSpace(c) == c = " "
\* \w
IsWord(c) == IsAlpha(c) \/ IsDigit(c) \/ c = "_"

Digits == { c \in Chars : IsDigit(c) }
Letters == { c \in Chars : IsAlpha(c) }

lower_char(c) == IF IsUpper(c) THEN chr(ord[c] + 32) ELSE c
upper_char(c) == IF IsLower(c) THEN chr(ord[c] - 32) ELSE c

(***************************************************************************)
(* Python string methods.                                                  *)
(***************************************************************************)
RECURSIVE lower(_)
\* str.lower
lower(s) == IF s = "" THEN "" ELSE lower_char(Head(s)) \o lower(Tail(s))

\* str.capitalize: first character upper case, the rest lower case
capitalize(s) == IF s = "" THEN "" ELSE upper_char(Head(s)) \o lower(Tail(s))

RECURSIVE lstrip(_)
lstrip(s) == IF s # "" /\ IsSpace(Head(s)) THEN lstrip(Tail(s)) ELSE s

RECURSIVE rstrip(_)
rstrip(s) ==
    IF s # "" /\ IsSpace(Ch(s, Len(s))) THEN rstrip(SubSeq(s, 1, Len(s) - 1)) ELSE s

\* str.strip
strip(s) == lstrip(rstrip(s))

RECURSIVE rstrip_char(_, _)
\* str.rstrip(c) for a single character c
rstrip_char(s, c) ==
    IF s # "" /\ Ch(s, Len(s)) = c THEN rstrip_char(SubSeq(s, 1, Len(s) - 1), c) ELSE s

\* str.startswith
startswith(s, p) == Len(s) >= Len(p) /\ SubSeq(s, 1, Len(p)) = p

\* p occurs in s at position i
OccursAt(s, p, i) == i >= 1 /\ i + Len(p) - 1 <= Len(s) /\ SubSeq(s, i, i + Len(p) - 1) = p

\* the Python test  p in s
contains(s, p) == \E i \in 1..(Len(s) + 1) : OccursAt(s, p, i)

\* the position of the first c in s, or 0
find(s, c) ==
    IF \E i \in 1..Len(s) : Ch(s, i) = c
    THEN CHOOSE i \in 1..Len(s) : Ch(s, i) = c /\ \A j \in 1..(i - 1) : Ch(s, j) # c
    ELSE 0

RECURSIVE split(_, _)
\* str.split(c): the segments of s between the occurrences of c
split(s, c) ==
    LET p == find(s, c)
    IN  IF p = 0 THEN <<s>>
        ELSE <<SubSeq(s, 1, p - 1)>> \o split(SubSeq(s, p + 1, Len(s)), c)

\* str.split(): the maximal runs of non-blank characters
words(s) == SelectSeq(split(s, " "), LAMBDA w : w # "")

RECURSIVE join(_, _)
\* sep.join(seq)
join(sep, seq) ==
    IF seq = <<>> THEN ""
    ELSE IF Len(seq) = 1 THEN seq[1]
    ELSE seq[1] \o sep \o join(sep, Tail(seq))

\* lexicographic order of strings by code point (Python <)
RECURSIVE str_lt(_, _)
str_lt(a, b) ==
    IF b = "" THEN FALSE
    ELSE IF a = "" THEN TRUE
    ELSE IF Head(a) # Head(b) THEN ord[Head(a)] < ord[Head(b)]
    ELSE str_lt(Tail(a), Tail(b))

RECURSIVE filter_chars(_, _)
\* the characters of s that are in the set S, in order
filter_chars(s, S) ==
    IF s = "" THEN ""
    ELSE (IF Head(s) \in S THEN Head(s) ELSE "") \o filter_chars(Tail(s), S)

\* every character of s is in the set S
all_chars(s, S) == \A i \in 1..Len(s) : Ch(s, i) \in S

(***************************************************************************)
(* Regular expressions of the source.                                      *)
(***************************************************************************)
\* the character class \w at position i of s; FALSE outside the string
WordAt(s, i) == i >= 1 /\ i <= Len(s) /\ IsWord(Ch(s, i))

\* \b between positions i - 1 and i of s
WordBoundary(s, i) == WordAt(s, i - 1) # WordAt(s, i)

\* \b w \b matches s at position i
MatchWordAt(s, w, i) ==
    OccursAt(s, w, i) /\ WordBoundary(s, i) /\ WordBoundary(s, i + Len(w))

RECURSIVE sub_words_from(_, _, _, _, _)
\* re.sub(r'\b(w1|w2|...)\b', repl, s) from position i on: the alternatives
\* pats are looked up in ms, which is s itself, or lower(s) together with
\* lower-case alternatives for re.IGNORECASE
sub_words_from(s, ms, pats, repl, i) ==
    IF i > Len(s) THEN ""
    ELSE IF \E k \in 1..Len(pats) : MatchWordAt(ms, pats[k], i)
    THEN LET k == CHOOSE k \in 1..Len(pats) :
                     /\ MatchWordAt(ms, pats[k], i)
                     /\ \A j \in 1..(k - 1) : ~MatchWordAt(ms, pats[j], i)
         IN  repl \o sub_words_from(s, ms, pats, repl, i + Len(pats[k]))
    ELSE Ch(s, i) \o sub_words_from(s, ms, pats, repl, i + 1)

\* re.sub(r'\b(w1|w2|...)\b', repl, s)
sub_words(s, pats, repl) == sub_words_from(s, s, pats, repl, 1)

\* re.sub(r'\b(w1|w2|...)\b', repl, s, flags=re.IGNORECASE), pats in lower case
sub_words_ignorecase(s, pats, repl) == sub_words_from(s, lower(s), pats, repl, 1)

RECURSIVE collapse_spaces(_)
\* re.sub(r'\s+', ' ', s)
collapse_spaces(s) ==
    IF s = "" THEN ""
    ELSE IF IsSpace(Head(s)) THEN " " \o collapse_spaces(lstrip(s))
    ELSE Head(s) \o collapse_spaces(Tail(s))

\* re.search(p, s, re.IGNORECASE) for a literal p
search_ignorecase(s, p) == contains(lower(s), lower(p))

(***************************************************************************)
(* pandas values and tables.                                               *)
(***************************************************************************)
\* the missing value (float nan) of a cell; it is not a string of the table
NaN == "<NaN>"

\* the sentinel string
NA == "N/A"

\* pd.isna
isna(v) == v = NaN

\* str(v)
str(v) == IF v = NaN THEN "nan" ELSE v

\* c in df.columns
has_column(df, c) == \E i \in 1..Len(df.columns) : df.columns[i] = c

\* the position of the (first) column labelled c
col_pos(df, c) ==
    CHOOSE i \in 1..Len(df.columns) :
        df.columns[i] = c /\ \A j \in 1..(i - 1) : df.columns[j] # c

\* row[c]
cell(df, row, c) == row.cells[col_pos(df, c)]

\* df[c] = f(row) for every row: the column is replaced, or added at the end
assign_column(df, c, f(_)) ==
    IF has_column(df, c)
    THEN [df EXCEPT !.rows =
            [i \in 1..Len(df.rows) |->
                [df.rows[i] EXCEPT !.cells[col_pos(df, c)] = f(df.rows[i])]]]
    ELSE [columns |-> Append(df.columns, c),
          rows |-> [i \in 1..Len(df.rows) |->
                       [df.rows[i] EXCEPT !.cells = Append(@, f(df.rows[i]))]]]

\* df[c] = df[c].apply(f)
apply_column(df, c, f(_)) == assign_column(df, c, LAMBDA row : f(cell(df, row, c)))

\* the k-th smallest element of the set S of numbers
kth(S, k) == CHOOSE i \in S : Cardinality({ j \in S : j <= i }) = k

\* the elements of seq at the positions in S, in order
select(seq, S) == [k \in 1..Cardinality(S) |-> seq[kth(S, k)]]

\* df.drop(c, axis=1)
drop_column(df, c) ==
    LET keep == { i \in 1..Len(df.columns) : df.columns[i] # c }
    IN  [columns |-> select(df.columns, keep),
         rows |-> [i \in 1..Len(df.rows) |->
                      [df.rows[i] EXCEPT !.cells = select(@, keep)]]]

\* the rows of df at the positions in S, in table order
rows_at(df, S) == select(df.rows, S)

\* df.drop_duplicates(): of rows with equal cells the first is kept (keep='first');
\* missing values compare equal to each other
drop_duplicates(df) ==
    [df EXCEPT !.rows =
        rows_at(df, { i \in 1..Len(df.rows) :
                        \A j \in 1..(i - 1) : df.rows[j].cells # df.rows[i].cells })]

\* df.loc[labels]: the rows with the given index labels, in the order of labels
loc(df, labels) ==
    [df EXCEPT !.rows =
        [k \in 1..Len(labels) |->
            df.rows[CHOOSE i \in 1..Len(df.rows) : df.rows[i].index = labels[k]]]]

RECURSIVE sorted(_)
\* the strings of the set K in ascending order (groupby sorts the group keys)
sorted(K) ==
    IF K = {} THEN <<>>
    ELSE LET m == CHOOSE k \in K : \A k2 \in K \ {k} : str_lt(k, k2)
         IN  <<m>> \o sorted(K \ {m})

(***************************************************************************)
(* FuneralDataProcessor.standardize_column_names                           *)
(***************************************************************************)
\* the dictionary standard_columns, in insertion order
standard_columns ==
    << <<"business name", "Business Name">>, <<"business_name", "Business Name">>,
       <<"name", "Business Name">>, <<"company", "Business Name">>,
       <<"company name", "Business Name">>,
       <<"type", "Type">>, <<"business type", "Type">>, <<"business_type", "Type">>,
       <<"category", "Type">>,
       <<"address", "Address">>, <<"full address", "Address">>,
       <<"full_address", "Address">>, <<"location", "Address">>,
       <<"phone", "Phone">>, <<"phone number", "Phone">>, <<"phone_number", "Phone">>,
       <<"telephone", "Phone">>, <<"tel", "Phone">>,
       <<"email", "Email">>, <<"email address", "Email">>, <<"email_address", "Email">>,
       <<"contact email", "Email">>,
       <<"website", "Website">>, <<"web", "Website">>, <<"url", "Website">>,
       <<"web address", "Website">>, <<"web_address", "Website">>,
       <<"contact", "Contact Person">>, <<"contact person", "Contact Person">>,
       <<"contact_person", "Contact Person">>, <<"primary contact", "Contact Person">>,
       <<"social", "Social Media">>, <<"social media", "Social Media">>,
       <<"social_media", "Social Media">>, <<"social links", "Social Media">>,
       <<"social_links", "Social Media">>,
       <<"size", "Size">>, <<"business size", "Size">>, <<"company size", "Size">>,
       <<"employees", "Size">>,
       <<"rating", "Google Rating">>, <<"google rating", "Google Rating">>,
       <<"google_rating", "Google Rating">>, <<"review rating", "Google Rating">>,
       <<"stars", "Google Rating">>,
       <<"state", "State">>, <<"st", "State">>, <<"province", "State">>,
       <<"city", "City">>, <<"town", "City">>, <<"locality", "City">>,
       <<"source", "Source">>, <<"data source", "Source">>, <<"data_source", "Source">> >>

\* the list required_columns
required_columns ==
    <<"Business Name", "Type", "Address", "Phone", "Email", "Website",
      "Contact Person", "Social Media", "Size", "Google Rating", "State", "City">>

\* df_columns_lower[k], for k the lower-cased label of some column: of the
\* columns whose lower-cased label is k the last one (a later entry of the
\* dict comprehension replaces an earlier one)
df_columns_lower(df, k) ==
    LET i == CHOOSE i \in 1..Len(df.columns) :
                 /\ lower(df.columns[i]) = k
                 /\ \A j \in (i + 1)..Len(df.columns) : lower(df.columns[j]) # k
    IN  df.columns[i]

\* the dictionary renamed_columns as the set of its items <<old, new>>
renamed_columns(df) ==
    { <<df_columns_lower(df, standard_columns[e][1]), standard_columns[e][2]>> :
        e \in { e \in 1..Len(standard_columns) :
                  /\ \E i \in 1..Len(df.columns) :
                         lower(df.columns[i]) = standard_columns[e][1]
                  /\ standard_columns[e][2] #
                         df_columns_lower(df, standard_columns[e][1]) } }

\* df.rename(columns=renamed_columns)
rename(df, renamed) ==
    [df EXCEPT !.columns =
        [i \in 1..Len(df.columns) |->
            IF \E r \in renamed : r[1] = df.columns[i]
            THEN (CHOOSE r \in renamed : r[1] = df.columns[i])[2]
            ELSE df.columns[i]]]

RECURSIVE add_missing_columns(_, _)
\* the loop over required_columns: a missing column is added, filled with "N/A"
add_missing_columns(df, cols) ==
    IF cols = <<>> THEN df
    ELSE add_missing_columns(
             IF has_column(df, Head(cols)) THEN df
             ELSE assign_column(df, Head(cols), LAMBDA row : NA),
             Tail(cols))

\* standardize_column_names()
standardize_column_names(df) ==
    add_missing_columns(rename(df, renamed_columns(df)), required_columns)

(***************************************************************************)
(* FuneralDataProcessor.clean_business_names                               *)
(***************************************************************************)
\* the suffixes of re.search(r'(Inc|LLC|Ltd|Co|Corporation|Company)', ...)
LegalSuffixes == <<"Inc", "LLC", "Ltd", "Co", "Corporation", "Company">>

\* clean_name(name)
clean_name(name) ==
    IF isna(name) \/ name = "N/A" THEN "Unknown Business"
    ELSE LET stripped == strip(str(name))
             titled == join(" ", [i \in 1..Len(words(stripped)) |->
                                     capitalize(words(stripped)[i])])
             n1 == sub_words_ignorecase(titled, <<"fnrl">>, "Funeral")
             n2 == sub_words_ignorecase(n1, <<"svcs", "svc">>, "Services")
             n3 == sub_words_ignorecase(n2, <<"mem">>, "Memorial")
         IN  IF ~ \E k \in 1..Len(LegalSuffixes) : search_ignorecase(n3, LegalSuffixes[k])
             THEN IF search_ignorecase(n3, "Funeral Home") \/ search_ignorecase(n3, "Mortuary")
                  THEN n3
                  ELSE IF search_ignorecase(n3, "Funeral") THEN n3 \o " Home"
                  ELSE IF search_ignorecase(n3, "Cremation") THEN n3 \o " Services"
                  ELSE n3
             ELSE n3

\* clean_business_names()
clean_business_names(df) ==
    IF ~has_column(df, "Business Name") THEN df
    ELSE LET filled == apply_column(df, "Business Name",
                           LAMBDA v : IF isna(v) THEN "Unknown Business" ELSE v)
         IN  apply_column(filled, "Business Name", clean_name)

(***************************************************************************)
(* FuneralDataProcessor.standardize_addresses                              *)
(***************************************************************************)
\* The result of usaddress.tag is a choice of the environment: the library
\* either raises (RepeatedLabelError) or returns labelled components.  A
\* component that the result does not hold is "".
NoComponents ==
    [AddressNumber |-> "", StreetName |-> "", StreetNamePostType |-> "",
     OccupancyType |-> "", OccupancyIdentifier |-> "", PlaceName |-> "",
     StateName |-> "", ZipCode |-> ""]

\* the comma-separated segments of s, each stripped
segments(s) == [i \in 1..Len(split(s, ",")) |-> strip(split(s, ",")[i])]

\* s has the shape  <number> <street name> <suffix>[, <city>[, <state> [<zip>]]]
is_street_address(s) ==
    LET segs == segments(s)
        w == words(segs[1])
    IN  /\ Len(segs) <= 3
        /\ Len(w) >= 3 /\ w[1] # "" /\ all_chars(w[1], Digits)
        /\ Len(segs) >= 2 => segs[2] # ""
        /\ Len(segs) = 3 => Len(words(segs[3])) \in {1, 2}

\* the components of an address of that shape
street_address_components(s) ==
    LET segs == segments(s)
        w == words(segs[1])
        sz == IF Len(segs) = 3 THEN words(segs[3]) ELSE <<>>
    IN  [NoComponents EXCEPT
            !.AddressNumber = w[1],
            !.StreetName = join(" ", SubSeq(w, 2, Len(w) - 1)),
            !.StreetNamePostType = w[Len(w)],
            !.PlaceName = IF Len(segs) >= 2 THEN segs[2] ELSE "",
            !.StateName = IF Len(sz) >= 1 THEN sz[1] ELSE "",
            !.ZipCode = IF Len(sz) = 2 THEN sz[2] ELSE ""]

\* the outcomes of usaddress.tag(address_str) that the model admits
usaddress_tag(address_str) ==
    { [raised |-> TRUE, parsed |-> NoComponents],
      [raised |-> FALSE, parsed |-> NoComponents] }
    \cup (IF is_street_address(address_str)
          THEN { [raised |-> FALSE, parsed |-> street_address_components(address_str)] }
          ELSE {})

\* standardize_address whose except branch returns the string untrimmed
standardize_address_untrimmed(address, tagged) ==
    IF isna(address) \/ address = "N/A" THEN "N/A"
    ELSE IF tagged.raised THEN str(address)
    ELSE LET address_str == strip(str(address))
             p == tagged.parsed
             street0 == strip(p.AddressNumber \o " " \o p.StreetName \o " "
                                \o p.StreetNamePostType)
             street_address ==
                 IF p.OccupancyType # "" /\ p.OccupancyIdentifier # ""
                 THEN street0 \o ", " \o p.OccupancyType \o " " \o p.OccupancyIdentifier
                 ELSE street0
             csz0 == p.PlaceName
             csz1 == IF p.StateName # ""
                     THEN (IF csz0 # "" THEN csz0 \o ", " \o p.StateName ELSE p.StateName)
                     ELSE csz0
             city_state_zip == IF p.ZipCode # "" THEN csz1 \o " " \o p.ZipCode ELSE csz1
         IN  IF street_address # "" /\ city_state_zip # ""
             THEN street_address \o ", " \o city_state_zip
             ELSE IF street_address # "" THEN street_address
             ELSE IF city_state_zip # "" THEN city_state_zip
             ELSE address_str

\* standardize_address(address), with the outcome of usaddress.tag
standardize_address(address, tagged) ==
    IF isna(address) \/ address = "N/A" THEN "N/A"
    ELSE IF tagged.raised THEN strip(str(address))
    ELSE LET address_str == strip(str(address))
             p == tagged.parsed
             street0 == strip(p.AddressNumber \o " " \o p.StreetName \o " "
                                \o p.StreetNamePostType)
             street_address ==
                 IF p.OccupancyType # "" /\ p.OccupancyIdentifier # ""
                 THEN street0 \o ", " \o p.OccupancyType \o " " \o p.OccupancyIdentifier
                 ELSE street0
             csz0 == p.PlaceName
             csz1 == IF p.StateName # ""
                     THEN (IF csz0 # "" THEN csz0 \o ", " \o p.StateName ELSE p.StateName)
                     ELSE csz0
             city_state_zip == IF p.ZipCode # "" THEN csz1 \o " " \o p.ZipCode ELSE csz1
         IN  IF street_address # "" /\ city_state_zip # ""
             THEN street_address \o ", " \o city_state_zip
             ELSE IF street_address # "" THEN street_address
             ELSE IF city_state_zip # "" THEN city_state_zip
             ELSE address_str

\* the position of the first character of s at or after i that is not a
\* blank (Len(s) + 1 when there is none): where \s* stops
skip_spaces(s, i) ==
    CHOOSE j \in i..(Len(s) + 1) :
        /\ \A k \in i..(j - 1) : IsSpace(Ch(s, k))
        /\ (j = Len(s) + 1 \/ ~IsSpace(Ch(s, j)))

\* [A-Z]{2} at position j of s
two_capitals_at(s, j) == j + 1 <= Len(s) /\ IsUpper(Ch(s, j)) /\ IsUpper(Ch(s, j + 1))

\* ,\s*([A-Z]{2})\s*\d{5} matches s at position i
state_zip_at(s, i) ==
    /\ Ch(s, i) = ","
    /\ LET j == skip_spaces(s, i + 1)
       IN  /\ two_capitals_at(s, j)
           /\ LET k == skip_spaces(s, j + 2)
              IN  k + 4 <= Len(s) /\ all_chars(SubSeq(s, k, k + 4), Digits)

\* ,\s*([A-Z]{2}), matches s at position i
state_comma_at(s, i) ==
    /\ Ch(s, i) = ","
    /\ LET j == skip_spaces(s, i + 1)
       IN  two_capitals_at(s, j) /\ j + 2 <= Len(s) /\ Ch(s, j + 2) = ","

\* ,\s*<state_name>\b matches s at position i
state_name_at(s, state_name, i) ==
    /\ Ch(s, i) = ","
    /\ LET j == skip_spaces(s, i + 1)
       IN  OccursAt(s, state_name, j) /\ WordBoundary(s, j + Len(state_name))

\* the least element of a non-empty set of numbers
least(S) == CHOOSE i \in S : \A j \in S : i <= j

\* the dictionary state_names, in insertion order
state_names ==
    << <<"alabama", "AL">>, <<"alaska", "AK">>, <<"arizona", "AZ">>, <<"arkansas", "AR">>,
       <<"california", "CA">>, <<"colorado", "CO">>, <<"connecticut", "CT">>,
       <<"delaware", "DE">>, <<"florida", "FL">>, <<"georgia", "GA">>, <<"hawaii", "HI">>,
       <<"idaho", "ID">>, <<"illinois", "IL">>, <<"indiana", "IN">>, <<"iowa", "IA">>,
       <<"kansas", "KS">>, <<"kentucky", "KY">>, <<"louisiana", "LA">>, <<"maine", "ME">>,
       <<"maryland", "MD">>, <<"massachusetts", "MA">>, <<"michigan", "MI">>,
       <<"minnesota", "MN">>, <<"mississippi", "MS">>, <<"missouri", "MO">>,
       <<"montana", "MT">>, <<"nebraska", "NE">>, <<"nevada", "NV">>,
       <<"new hampshire", "NH">>, <<"new jersey", "NJ">>, <<"new mexico", "NM">>,
       <<"new york", "NY">>, <<"north carolina", "NC">>, <<"north dakota", "ND">>,
       <<"ohio", "OH">>, <<"oklahoma", "OK">>, <<"oregon", "OR">>, <<"pennsylvania", "PA">>,
       <<"rhode island", "RI">>, <<"south carolina", "SC">>, <<"south dakota", "SD">>,
       <<"tennessee", "TN">>, <<"texas", "TX">>, <<"utah", "UT">>, <<"vermont", "VT">>,
       <<"virginia", "VA">>, <<"washington", "WA">>, <<"west virginia", "WV">>,
       <<"wisconsin", "WI">>, <<"wyoming", "WY">>, <<"district of columbia", "DC">> >>

\* extract_state(address)
extract_state(address) ==
    IF isna(address) \/ address = "N/A" THEN "N/A"
    ELSE LET zip == { i \in 1..Len(address) : state_zip_at(address, i) }
             com == { i \in 1..Len(address) : state_comma_at(address, i) }
             low == lower(address)
             named == { e \in 1..Len(state_names) :
                          \E i \in 1..Len(low) : state_name_at(low, state_names[e][1], i) }
         IN  IF zip # {}
             THEN LET j == skip_spaces(address, least(zip) + 1) IN SubSeq(address, j, j + 1)
             ELSE IF com # {}
             THEN LET j == skip_spaces(address, least(com) + 1) IN SubSeq(address, j, j + 1)
             ELSE IF named # {} THEN state_names[least(named)][2]
             ELSE "N/A"

\* the position of the first "," of s after position i, or 0
next_comma(s, i) ==
    IF \E k \in (i + 1)..Len(s) : Ch(s, k) = ","
    THEN least({ k \in (i + 1)..Len(s) : Ch(s, k) = "," })
    ELSE 0

\* ,\s*([^,]+),\s*[A-Z]{2} matches s at position i
city_state_at(s, i) ==
    /\ Ch(s, i) = ","
    /\ next_comma(s, i) > i + 1
    /\ two_capitals_at(s, skip_spaces(s, next_comma(s, i) + 1))

\* group(1) of that match: the text up to the next comma without the blanks
\* that \s* takes; when only blanks stand there, \s* leaves the last to [^,]+
city_group(s, i) ==
    LET j == skip_spaces(s, i + 1)
        e == next_comma(s, i)
    IN  IF j < e THEN SubSeq(s, j, e - 1) ELSE SubSeq(s, e - 1, e - 1)

\* extract_city(address)
extract_city(address) ==
    IF isna(address) \/ address = "N/A" THEN "N/A"
    ELSE LET m == { i \in 1..Len(address) : city_state_at(address, i) }
             parts == split(address, ",")
         IN  IF m # {} THEN strip(city_group(address, least(m)))
             ELSE IF Len(parts) >= 2 THEN strip(parts[Len(parts) - 1])
             ELSE "N/A"

\* df[c].isna().all()
all_na(df, c) == \A i \in 1..Len(df.rows) : isna(cell(df, df.rows[i], c))

\* standardize_addresses(), with the outcome of usaddress.tag for every row
standardize_addresses(df, tagged) ==
    IF ~has_column(df, "Address") THEN df
    ELSE LET p == col_pos(df, "Address")
             d1 == [df EXCEPT !.rows =
                      [i \in 1..Len(df.rows) |->
                          [df.rows[i] EXCEPT !.cells[p] = standardize_address(@, tagged[i])]]]
             d2 == IF ~has_column(d1, "State") \/ all_na(d1, "State")
                   THEN assign_column(d1, "State",
                            LAMBDA row : extract_state(cell(d1, row, "Address")))
                   ELSE d1
         IN  IF ~has_column(d2, "City") \/ all_na(d2, "City")
             THEN assign_column(d2, "City",
                      LAMBDA row : extract_city(cell(d2, row, "Address")))
             ELSE d2

(***************************************************************************)
(* FuneralDataProcessor.clean_phone_numbers                                *)
(***************************************************************************)
\* standardize_phone that keeps the first 10 digits of a longer number
standardize_phone_first10(phone) ==
    IF isna(phone) \/ phone = "N/A" THEN "N/A"
    ELSE LET digits_only == filter_chars(str(phone), Digits)
         IN  IF Len(digits_only) < 10 THEN strip(str(phone))
             ELSE "(" \o SubSeq(digits_only, 1, 3) \o ") " \o SubSeq(digits_only, 4, 6)
                      \o "-" \o SubSeq(digits_only, 7, 10)

\* standardize_phone that formats a number of exactly 10 digits only
standardize_phone_only10(phone) ==
    IF isna(phone) \/ phone = "N/A" THEN "N/A"
    ELSE LET digits_only == filter_chars(str(phone), Digits)
         IN  IF Len(digits_only) # 10 THEN strip(str(phone))
             ELSE "(" \o SubSeq(digits_only, 1, 3) \o ") " \o SubSeq(digits_only, 4, 6)
                      \o "-" \o SubSeq(digits_only, 7, 10)

\* standardize_phone(phone)
standardize_phone(phone) ==
    IF isna(phone) \/ phone = "N/A" THEN "N/A"
    ELSE LET digits_only == filter_chars(str(phone), Digits)
             d1 == IF Len(digits_only) = 11 /\ startswith(digits_only, "1")
                   THEN Tail(digits_only) ELSE digits_only
             d2 == IF Len(d1) > 10 THEN SubSeq(d1, Len(d1) - 9, Len(d1)) ELSE d1
         IN  IF Len(digits_only) < 10 THEN strip(str(phone))
             ELSE "(" \o SubSeq(d2, 1, 3) \o ") " \o SubSeq(d2, 4, 6) \o "-" \o SubSeq(d2, 7, 10)

\* clean_phone_numbers()
clean_phone_numbers(df) ==
    IF ~has_column(df, "Phone") THEN df
    ELSE apply_column(df, "Phone", standardize_phone)

(***************************************************************************)
(* FuneralDataProcessor.extract_emails                                     *)
(***************************************************************************)
\* [a-zA-Z0-9._%+-]
LocalChars == Letters \cup Digits \cup {".", "_", "%", "+", "-"}
\* [a-zA-Z0-9.-]
DomainChars == Letters \cup Digits \cup {".", "-"}

\* the lengths i of a match of [a-zA-Z0-9.-]+ at the start of s that is
\* followed by \.[a-zA-Z]{2,}
domain_splits(s) ==
    { i \in 1..Len(s) :
        /\ all_chars(SubSeq(s, 1, i), DomainChars)
        /\ i + 3 <= Len(s)
        /\ Ch(s, i + 1) = "."
        /\ Ch(s, i + 2) \in Letters /\ Ch(s, i + 3) \in Letters }

\* the length of the match of [a-zA-Z0-9.-]+\.[a-zA-Z]{2,} at the start of s
\* (both quantifiers greedy), or 0 when there is none
domain_match_len(s) ==
    IF domain_splits(s) = {} THEN 0
    ELSE LET i == CHOOSE i \in domain_splits(s) : \A j \in domain_splits(s) : j <= i
             e == CHOOSE e \in (i + 3)..Len(s) :
                      /\ all_chars(SubSeq(s, i + 2, e), Letters)
                      /\ (e = Len(s) \/ Ch(s, e + 1) \notin Letters)
         IN  e

\* the length of the match of email_pattern at the start of s, or 0:
\* ^[a-zA-Z0-9._%+-]+@[a-zA-Z0-9.-]+\.[a-zA-Z]{2,}
email_match_len(s) ==
    LET at == find(s, "@")
    IN  IF at >= 2 /\ all_chars(SubSeq(s, 1, at - 1), LocalChars)
           /\ domain_match_len(SubSeq(s, at + 1, Len(s))) > 0
        THEN at + domain_match_len(SubSeq(s, at + 1, Len(s)))
        ELSE 0

\* re.match(email_pattern, s): a match exists
re_match_email(s) == email_match_len(s) > 0

\* re.search(email_pattern, s): the pattern starts with ^ and re.MULTILINE is
\* not given, so the search can match at the start of s only; the result is
\* the matched text, or "" for no match
re_search_email(s) == SubSeq(s, 1, email_match_len(s))

\* validate_email without .lower()
validate_email_cased(email) ==
    IF isna(email) \/ email = "N/A" THEN "N/A"
    ELSE LET email_str == strip(str(email))
         IN  IF re_match_email(email_str) THEN email_str
             ELSE IF re_search_email(email_str) # "" THEN re_search_email(email_str)
             ELSE "N/A"

\* validate_email(email)
validate_email(email) ==
    IF isna(email) \/ email = "N/A" THEN "N/A"
    ELSE LET email_str == lower(strip(str(email)))
         IN  IF re_match_email(email_str) THEN email_str
             ELSE IF re_search_email(email_str) # "" THEN re_search_email(email_str)
             ELSE "N/A"

\* extract_emails()
extract_emails(df) ==
    IF ~has_column(df, "Email") THEN df
    ELSE apply_column(df, "Email", validate_email)

(***************************************************************************)
(* FuneralDataProcessor.clean_websites                                     *)
(***************************************************************************)
\* re.match(url_pattern, s): ^https?://[a-zA-Z0-9.-]+\.[a-zA-Z]{2,}(/.*)?
re_match_url(s) ==
    \/ startswith(s, "http://") /\ domain_match_len(SubSeq(s, 8, Len(s))) > 0
    \/ startswith(s, "https://") /\ domain_match_len(SubSeq(s, 9, Len(s))) > 0

\* standardize_url that keeps the trailing slashes
standardize_url_slashes(url) ==
    IF isna(url) \/ url = "N/A" THEN "N/A"
    ELSE LET u0 == strip(str(url))
             url_str == IF ~(startswith(u0, "http://") \/ startswith(u0, "https://"))
                        THEN "http://" \o u0 ELSE u0
         IN  IF re_match_url(url_str) THEN url_str ELSE "N/A"

\* standardize_url(url)
standardize_url(url) ==
    IF isna(url) \/ url = "N/A" THEN "N/A"
    ELSE LET u0 == strip(str(url))
             u1 == IF ~(startswith(u0, "http://") \/ startswith(u0, "https://"))
                   THEN "http://" \o u0 ELSE u0
             url_str == rstrip_char(u1, "/")
         IN  IF re_match_url(url_str) THEN url_str ELSE "N/A"

\* clean_websites()
clean_websites(df) ==
    IF ~has_column(df, "Website") THEN df
    ELSE apply_column(df, "Website", standardize_url)

(***************************************************************************)
(* FuneralDataProcessor.fill_missing_business_types                        *)
(***************************************************************************)
\* determine_type with the chapel rule tried before the memorial rules
determine_type_chapel_first(df, row) ==
    IF ~isna(cell(df, row, "Type")) /\ cell(df, row, "Type") # "N/A"
    THEN cell(df, row, "Type")
    ELSE LET name == lower(str(cell(df, row, "Business Name")))
         IN  IF contains(name, "cremation") \/ contains(name, "crematory")
             THEN "Cremation Service"
             ELSE IF contains(name, "chapel") THEN "Funeral Chapel"
             ELSE IF contains(name, "memorial")
             THEN (IF contains(name, "funeral") THEN "Hybrid (Funeral & Memorial)"
                   ELSE "Memorial Service")
             ELSE IF contains(name, "mortuary") THEN "Mortuary"
             ELSE IF contains(name, "cemetery") THEN "Cemetery"
             ELSE IF contains(name, "funeral") THEN "Funeral Home"
             ELSE "Funeral Services"

\* determine_type(row)
determine_type(df, row) ==
    IF ~isna(cell(df, row, "Type")) /\ cell(df, row, "Type") # "N/A"
    THEN cell(df, row, "Type")
    ELSE LET name == lower(str(cell(df, row, "Business Name")))
         IN  IF contains(name, "cremation") \/ contains(name, "crematory")
             THEN "Cremation Service"
             ELSE IF contains(name, "memorial")
             THEN (IF contains(name, "funeral") THEN "Hybrid (Funeral & Memorial)"
                   ELSE "Memorial Service")
             ELSE IF contains(name, "mortuary") THEN "Mortuary"
             ELSE IF contains(name, "cemetery") THEN "Cemetery"
             ELSE IF contains(name, "chapel") THEN "Funeral Chapel"
             ELSE IF contains(name, "funeral") THEN "Funeral Home"
             ELSE "Funeral Services"

\* fill_missing_business_types()
fill_missing_business_types(df) ==
    IF ~has_column(df, "Type") \/ ~has_column(df, "Business Name") THEN df
    ELSE assign_column(df, "Type", LAMBDA row : determine_type(df, row))

(***************************************************************************)
(* FuneralDataProcessor.extract_social_media_links                         *)
(***************************************************************************)
\* extract_social_media_links()
extract_social_media_links(df) ==
    IF ~has_column(df, "Social Media")
    THEN assign_column(df, "Social Media", LAMBDA row : NA)
    ELSE df

(***************************************************************************)
(* FuneralDataProcessor.remove_duplicates                                  *)
(***************************************************************************)
StopWords == <<"funeral", "home", "services", "inc", "llc">>

\* generate_matching_key without .lower() on the name
generate_matching_key_cased(df, row) ==
    LET name0 == str(cell(df, row, "Business Name"))
        name1 == sub_words(name0, StopWords, "")
        name == strip(collapse_spaces(name1))
        address == lower(str(cell(df, row, "Address")))
        address_parts == IF contains(address, ",") THEN split(address, ",")[1] ELSE address
        address_clean == strip(collapse_spaces(address_parts))
    IN  name \o "|" \o address_clean

\* generate_matching_key(row)
generate_matching_key(df, row) ==
    LET name0 == lower(str(cell(df, row, "Business Name")))
        name1 == sub_words(name0, StopWords, "")
        name == strip(collapse_spaces(name1))
        address == lower(str(cell(df, row, "Address")))
        address_parts == IF contains(address, ",") THEN split(address, ",")[1] ELSE address
        address_clean == strip(collapse_spaces(address_parts))
    IN  name \o "|" \o address_clean

\* the test of completeness_score on one value:
\* val and val != "N/A" and val != "nan"
is_populated(v) == LET val == str(v) IN val # "" /\ val # "N/A" /\ val # "nan"

\* completeness_score(row), with df the table that has the matching_key column
completeness_score(df, row) ==
    Cardinality({ i \in 1..Len(df.columns) :
                    df.columns[i] # "matching_key" /\ is_populated(row.cells[i]) })

\* idxmax that returns the last row with the highest score
idxmax_last(df, group) ==
    LET best == CHOOSE i \in 1..Len(group) :
                    /\ \A j \in 1..Len(group) :
                           completeness_score(df, group[j]) <= completeness_score(df, group[i])
                    /\ \A j \in (i + 1)..Len(group) :
                           completeness_score(df, group[j]) < completeness_score(df, group[i])
    IN  group[best].index

\* scores.idxmax() for the rows of one group, given in table order: the index
\* label of the first row that has the highest score
idxmax(df, group) ==
    LET best == CHOOSE i \in 1..Len(group) :
                    /\ \A j \in 1..Len(group) :
                           completeness_score(df, group[j]) <= completeness_score(df, group[i])
                    /\ \A j \in 1..(i - 1) :
                           completeness_score(df, group[j]) < completeness_score(df, group[i])
    IN  group[best].index

\* the rows of the group of key, in table order (df has the matching_key column)
group_of(df, key) ==
    rows_at(df, { i \in 1..Len(df.rows) : cell(df, df.rows[i], "matching_key") = key })

\* the loop over grouped with the groups of more than one row skipped
rows_to_keep_singles(df) ==
    LET keys == sorted({ cell(df, df.rows[i], "matching_key") : i \in 1..Len(df.rows) })
        single == { k \in 1..Len(keys) : Len(group_of(df, keys[k])) = 1 }
    IN  [k \in 1..Cardinality(single) |-> group_of(df, keys[kth(single, k)])[1].index]

\* the loop over grouped that fills rows_to_keep; the groups come in ascending
\* order of their key
rows_to_keep(df) ==
    LET keys == sorted({ cell(df, df.rows[i], "matching_key") : i \in 1..Len(df.rows) })
    IN  [k \in 1..Len(keys) |->
            LET group == group_of(df, keys[k])
            IN  IF Len(group) = 1 THEN group[1].index ELSE idxmax(df, group)]

\* remove_duplicates that does not drop the temporary column
remove_duplicates_keeps_key(df) ==
    LET exact == drop_duplicates(df)
        keyed == assign_column(exact, "matching_key",
                               LAMBDA row : generate_matching_key(exact, row))
    IN  loc(keyed, rows_to_keep(keyed))

\* remove_duplicates()
remove_duplicates(df) ==
    LET exact == drop_duplicates(df)
        keyed == assign_column(exact, "matching_key",
                               LAMBDA row : generate_matching_key(exact, row))
        kept == loc(keyed, rows_to_keep(keyed))
    IN  drop_column(kept, "matching_key")

(***************************************************************************)
(* The processor: its table, and the position of clean_data.               *)
(***************************************************************************)
VARIABLES
    df,           \* self.df
    original_df,  \* self.original_df, the copy clean_data takes
    pc,           \* the statement of clean_data that runs next
    pass,         \* the number of calls of clean_data so far, this one included
    done,         \* history: the stages the current call has completed, in order
    before,       \* history: self.df before the last stage ran
    first_out,    \* history: the table the first call of clean_data returned
    errors,       \* the messages given to logger.error, in order
    exports,      \* for each export method: the state of its output file, how
                  \* its call ended and what it returned
    tags,         \* history: what usaddress.tag did for each row in the last
                  \* stage, <<>> when the stage does not call it
    scraper,      \* the FuneralDataScraper: self.data and the position of
                  \* run_full_scrape
    api           \* the query API: its table, the requests it has handled and
                  \* its last response

vars == <<df, original_df, pc, pass, done, before, first_out, errors, exports, tags,
          scraper, api>>

\* no export method has been called and no output file exists
NotExported ==
    [m \in {"export_to_csv", "export_to_excel"} |->
        [file |-> "absent", call |-> "not called", returned |-> "nothing"]]

\* no FuneralDataScraper has been constructed
NotScraping == [at |-> "none"]

\* app.py has not been imported
NotServing == [at |-> "none"]

\* pd.DataFrame(): no columns, no rows
EmptyFrame == [columns |-> <<>>, rows |-> <<>>]

\* df.empty
empty(d) == Len(d.columns) = 0 \/ Len(d.rows) = 0

\* the table read_csv returns for the given header and rows of cells: the
\* index is the RangeIndex 0, 1, ...
frame(header, cells) ==
    [columns |-> header,
     rows |-> [i \in 1..Len(cells) |-> [index |-> i - 1, cells |-> cells[i]]]]

\* the tables with the given header and lo to hi rows out of menu
frames(header, menu, lo, hi) ==
    { frame(header, cells) : cells \in UNION { [1..k -> menu] : k \in lo..hi } }

(***************************************************************************)
(* Input tables of the pipeline.  read_csv turns the empty cell and the    *)
(* strings "N/A", "nan", ... into NaN, so a loaded table holds none of     *)
(* these strings.                                                          *)
(***************************************************************************)
\* the header of the input: a synonym of a canonical label, canonical
\* labels, a column that is no canonical field; some canonical fields have
\* no column
InputHeader == <<"name", "Address", "Phone", "email", "State", "Notes">>

NameInputs == {"Smith Funeral Home", "smith fnrl", "smith cremation", "  ", NaN}
AddressInputs == {" 12  Oak St, Troy, NY 12180", "9 Elm Rd, Troy, New York", NaN}
Profiles == {"bare", "full"}

\* the cell of a row in the column labelled c
input_cell(c, name, address, profile) ==
    CASE lower(c) \in {"business name", "name"} -> name
      [] lower(c) = "address" -> address
      [] c = "Phone" -> IF profile = "full" THEN "555-123-4567" ELSE NaN
      [] c = "State" -> IF profile = "bare" THEN NaN
                        ELSE IF address = "9 Elm Rd, Troy, New York" THEN "New York"
                        ELSE "NY"
      [] c = "email" -> IF profile = "full" THEN "Info@Abc.com" ELSE NaN
      [] OTHER -> IF profile = "full" THEN "open 24h" ELSE NaN

input_rows(header) ==
    { [i \in 1..Len(header) |-> input_cell(header[i], name, address, profile)] :
        name \in NameInputs, address \in AddressInputs, profile \in Profiles }

\* a file without the columns State and City
ScrapedHeader == <<"Business Name", "Address">>

scraped_rows ==
    { <<"Smith Funeral Home", address>> :
        address \in {"12 Oak St, Troy, NY 12180", "9 Elm Rd, Troy, New York", "PO Box 7"} }

\* the tables FuneralDataProcessor.__init__ can load; a file that cannot be
\* read leaves pd.DataFrame()
InputTables ==
    frames(InputHeader, input_rows(InputHeader), 0, MaxRows)
        \cup frames(ScrapedHeader, scraped_rows, 1, MaxRows)
        \cup {EmptyFrame}

\* the processor with the table d loaded, before the statement at
start(d, at) ==
    /\ df = d
    /\ original_df = EmptyFrame
    /\ pc = at
    /\ pass = 1
    /\ done = <<>>
    /\ before = d
    /\ first_out = EmptyFrame
    /\ errors = IF d = EmptyFrame THEN <<"Error loading input file">> ELSE <<>>
    /\ exports = NotExported
    /\ tags = <<>>
    /\ scraper = NotScraping
    /\ api = NotServing

\* __init__, and the caller about to call clean_data
Init == \E d \in InputTables : start(d, "clean_data")

(***************************************************************************)
(* clean_data, statement by statement.                                     *)
(***************************************************************************)
\* a stage of clean_data: self.df becomes out and control passes on; tagged
\* is what usaddress.tag did in the stage
stage_tagged(name, out, next, tagged) ==
    /\ pc = name
    /\ df' = out
    /\ before' = df
    /\ done' = Append(done, name)
    /\ pc' = next
    /\ tags' = tagged
    /\ UNCHANGED <<original_df, pass, first_out, errors, exports, scraper, api>>

\* a stage that does not call usaddress.tag
stage(name, out, next) == stage_tagged(name, out, next, <<>>)

\* the entry of clean_data: an empty table is returned as it is
clean_data_enter ==
    /\ pc = "clean_data"
    /\ IF empty(df)
       THEN /\ pc' = "return"
            /\ errors' = Append(errors, "No data to clean")
            /\ UNCHANGED original_df
       ELSE /\ pc' = "standardize_column_names"
            /\ original_df' = df
            /\ UNCHANGED errors
    /\ done' = <<>>
    /\ UNCHANGED <<df, pass, before, first_out, exports, tags, scraper, api>>

do_standardize_column_names ==
    /\ stage("standardize_column_names", standardize_column_names(df), "remove_duplicates")

do_remove_duplicates ==
    /\ stage("remove_duplicates", remove_duplicates(df), "clean_business_names")

do_clean_business_names ==
    /\ stage("clean_business_names", clean_business_names(df), "standardize_addresses")

\* the parser is called for the rows whose Address is a string
parser_called(v) == ~(isna(v) \/ v = "N/A")

\* the outcomes of usaddress.tag admitted for the row at position i
row_tags(d, i) ==
    IF has_column(d, "Address") /\ parser_called(cell(d, d.rows[i], "Address"))
    THEN usaddress_tag(strip(str(cell(d, d.rows[i], "Address"))))
    ELSE { [raised |-> FALSE, parsed |-> NoComponents] }

\* the outcomes of usaddress.tag admitted for the rows of d
table_tags(d) ==
    { tagged \in [1..Len(d.rows) -> UNION { row_tags(d, i) : i \in 1..Len(d.rows) }] :
        \A i \in 1..Len(d.rows) : tagged[i] \in row_tags(d, i) }

do_standardize_addresses ==
    /\ pc = "standardize_addresses"
    /\ \E tagged \in table_tags(df) :
           stage_tagged("standardize_addresses", standardize_addresses(df, tagged),
                        "clean_phone_numbers", tagged)

do_clean_phone_numbers ==
    /\ stage("clean_phone_numbers", clean_phone_numbers(df), "extract_emails")

do_extract_emails ==
    /\ stage("extract_emails", extract_emails(df), "clean_websites")

do_clean_websites ==
    /\ stage("clean_websites", clean_websites(df), "fill_missing_business_types")

do_fill_missing_business_types ==
    /\ stage("fill_missing_business_types", fill_missing_business_types(df),
             "extract_social_media_links")

do_extract_social_media_links ==
    /\ stage("extract_social_media_links", extract_social_media_links(df), "return")

\* clean_data is called again on the table it returned
clean_data_again ==
    /\ pc = "return"
    /\ pass < MaxPasses
    /\ pass' = pass + 1
    /\ first_out' = IF pass = 1 THEN df ELSE first_out
    /\ pc' = "clean_data"
    /\ UNCHANGED <<df, original_df, done, before, errors, exports, tags, scraper, api>>

Next ==
    \/ clean_data_enter
    \/ do_standardize_column_names
    \/ do_remove_duplicates
    \/ do_clean_business_names
    \/ do_standardize_addresses
    \/ do_clean_phone_numbers
    \/ do_extract_emails
    \/ do_clean_websites
    \/ do_fill_missing_business_types
    \/ do_extract_social_media_links
    \/ clean_data_again

Spec == Init /\ [][Next]_vars

(***************************************************************************)
(* FuneralDataProcessor.__init__ followed by the entry of clean_data.      *)
(***************************************************************************)
\* the except branch of __init__ that re-raises instead of going on
load_failed_raises ==
    /\ pc' = "raised"
    /\ UNCHANGED <<df, before, errors>>

\* the except branch of __init__: read_csv raised
load_failed ==
    /\ df' = EmptyFrame
    /\ before' = EmptyFrame
    /\ errors' = Append(errors, "Error loading input file")
    /\ pc' = "clean_data"

\* __init__: read_csv returns a table, or raises
FuneralDataProcessor_init ==
    /\ pc = "__init__"
    /\ \/ \E d \in InputTables \ {EmptyFrame} :
              df' = d /\ before' = d /\ pc' = "clean_data" /\ UNCHANGED errors
       \/ load_failed
    /\ UNCHANGED <<original_df, pass, done, first_out, exports, tags, scraper, api>>

\* before the constructor runs
InitLoad ==
    /\ df = EmptyFrame
    /\ original_df = EmptyFrame
    /\ pc = "__init__"
    /\ pass = 1
    /\ done = <<>>
    /\ before = EmptyFrame
    /\ first_out = EmptyFrame
    /\ errors = <<>>
    /\ exports = NotExported
    /\ tags = <<>>
    /\ scraper = NotScraping
    /\ api = NotServing

NextLoad ==
    \/ FuneralDataProcessor_init
    \/ clean_data_enter

SpecLoad == InitLoad /\ [][NextLoad]_vars

(***************************************************************************)
(* export_to_csv and export_to_excel, each called once on the table        *)
(* clean_data returned.                                                    *)
(***************************************************************************)
\* an except branch that returns output_file
write_failed_returns_path(file) ==
    [file |-> file, call |-> "failed", returned |-> "path"]

\* the except branch of an export method: return None
write_failed(file) ==
    [file |-> file, call |-> "failed", returned |-> "None"]

\* the try block ran to its end: return output_file
write_done == [file |-> "complete", call |-> "ok", returned |-> "path"]

\* an export method: the write succeeds when it can, or raises at any point,
\* before the file exists or after a part of it is written
export(method, can_succeed) ==
    /\ pc = "return"
    /\ exports[method].call = "not called"
    /\ \/ /\ can_succeed
          /\ exports' = [exports EXCEPT ![method] = write_done]
          /\ UNCHANGED errors
       \/ \E file \in {"absent", "partial"} :
             /\ exports' = [exports EXCEPT ![method] = write_failed(file)]
             /\ errors' = Append(errors, "Error exporting data")
    /\ UNCHANGED <<df, original_df, pc, pass, done, before, first_out, tags, scraper, api>>

export_to_csv == export("export_to_csv", TRUE)

\* groupby('State') and groupby('Type') raise KeyError without the column
export_to_excel ==
    export("export_to_excel", has_column(df, "State") /\ has_column(df, "Type"))

\* tables clean_data returns: cleaned tables, and empty tables as loaded
ExportTables ==
    frames(<<"Business Name", "State", "Type">>,
           { <<"Smith Funeral Home", "NY", "Funeral Home">>,
             <<"Smith Mortuary", "N/A", "Mortuary">>,
             <<"Unknown Business", NaN, "Funeral Services">> }, 0, MaxRows)
        \cup {EmptyFrame, frame(<<"name", "Address">>, <<>>)}

InitExport == \E d \in ExportTables : start(d, "return")

NextExport ==
    \/ export_to_csv
    \/ export_to_excel

SpecExport == InitExport /\ [][NextExport]_vars

(***************************************************************************)
(* remove_duplicates alone, on tables that standardize_column_names has    *)
(* reconciled.                                                             *)
(***************************************************************************)
DedupNames == {"ABC Funeral Home", "Abc Funeral Home Inc", "Smith Mortuary"}
DedupAddresses == {"12 Oak St, Troy, NY", "12 Oak St"}
DedupPhones == {NaN, "555-123-4567"}

DedupTables ==
    { standardize_column_names(d) :
        d \in frames(<<"Business Name", "Address", "Phone">>,
                     { r \in { <<n, a, p>> : n \in DedupNames, a \in DedupAddresses,
                                              p \in DedupPhones } :
                         /\ r[1] = "Smith Mortuary" => r[2] = "12 Oak St"
                         /\ r[1] # "ABC Funeral Home" => r[3] # NaN },
                     1, MaxDedupRows) }

InitDedup == \E d \in DedupTables : start(d, "remove_duplicates")

SpecDedup == InitDedup /\ [][do_remove_duplicates]_vars

(***************************************************************************)
(* clean_phone_numbers alone, on a table of one record.                    *)
(***************************************************************************)
\* phone numbers written in several ways, with 0 to 17 digits
PhoneInputs ==
    { prefix \o area \o number \o ext :
        prefix \in {"", "1", "+1 ", " 1-", "44 ", "011 44 "},
        area \in {"", "555", "(555) ", "555."},
        number \in {"", "12345", "1234567", "123-4567"},
        ext \in {"", " ", " x89"} }
    \ {""}

InitPhone ==
    \E p \in PhoneInputs \cup {NaN, NA} :
        start(frame(<<"Business Name", "Phone">>, << <<"Smith Mortuary", p>> >>),
              "clean_phone_numbers")

SpecPhone == InitPhone /\ [][do_clean_phone_numbers]_vars

(***************************************************************************)
(* extract_emails alone, on a table of one record.                         *)
(***************************************************************************)
EmailInputs ==
    { lead \o local \o at \o domain \o trail :
        lead \in {"", " ", "contact: "},
        local \in {"", "john", "John.Doe", "j_%+-d"},
        at \in {"", "@"},
        domain \in {"example.com", "EXAMPLE.Co.Uk", "example", "a-b.org", "x.c"},
        trail \in {"", " ", ", call us", ".", "1"} }

InitEmail ==
    \E e \in EmailInputs \cup {NaN, NA} :
        start(frame(<<"Business Name", "Email">>, << <<"Smith Mortuary", e>> >>),
              "extract_emails")

SpecEmail == InitEmail /\ [][do_extract_emails]_vars

(***************************************************************************)
(* clean_websites alone, on a table of one record.                         *)
(***************************************************************************)
UrlInputs ==
    { lead \o scheme \o host \o path \o trail :
        lead \in {"", " "},
        scheme \in {"", "http://", "https://", "HTTP://", "ftp://", "soap.beep://", "www."},
        host \in {"", "example.com", "Sub.Example.org", "example", "x.c"},
        path \in {"", "/", "//", "/a/b/", "/a b", " and more"},
        trail \in {"", " "} }

InitUrl ==
    \E u \in UrlInputs \cup {NaN, NA} :
        start(frame(<<"Business Name", "Website">>, << <<"Smith Mortuary", u>> >>),
              "clean_websites")

SpecUrl == InitUrl /\ [][do_clean_websites]_vars

(***************************************************************************)
(* fill_missing_business_types alone, on a table of one record.            *)
(***************************************************************************)
TypeNames ==
    { first \o memorial \o funeral \o last :
        first \in {"", "Sunrise "},
        memorial \in {"", "Memorial "},
        funeral \in {"", "Funeral "},
        last \in {"Chapel", "Cemetery", "Mortuary", "Crematory", "CREMATION", "Home",
                  "Gardens"} }

TypeInputs == {NaN, NA, "Chapel", "Funeral Home"}

InitType ==
    \E n \in TypeNames \cup {NaN}, ty \in TypeInputs :
        start(frame(<<"Business Name", "Type">>, << <<n, ty>> >>),
              "fill_missing_business_types")

SpecType == InitType /\ [][do_fill_missing_business_types]_vars

(***************************************************************************)
(* The field canonicalizers of clean_data when a call of a canonicalizer   *)
(* on a row raises an unexpected error.  Which calls raise is a choice of  *)
(* the environment; what happens then is what the code around the call     *)
(* does: standardize_address and standardize_phone catch the error inside  *)
(* the function, the other canonicalizers have no handler, and neither     *)
(* have Series.apply, the stage methods and clean_data.                    *)
(***************************************************************************)
\* the sets of rows on which the canonicalizer may raise
raising_rows(d) == SUBSET (1..Len(d.rows))

\* a stage whose canonicalizer has no handler: an error in any row leaves
\* apply, the stage method and clean_data, before self.df is assigned
stage_unhandled(name, out, next, raising) ==
    IF raising = {}
    THEN stage(name, out, next)
    ELSE /\ pc = name
         /\ pc' = "raised"
         /\ UNCHANGED <<df, original_df, pass, done, before, first_out, errors, exports,
                        tags, scraper, api>>

clean_business_names_raising ==
    /\ pc = "clean_business_names"
    /\ \E raising \in raising_rows(df) :
           stage_unhandled("clean_business_names", clean_business_names(df),
                           "standardize_addresses", raising)

\* clean_phone_numbers(): the except branch of standardize_phone returns
\* str(phone).strip() for the rows whose try block raised
clean_phone_numbers_raising ==
    /\ pc = "clean_phone_numbers"
    /\ \E raising \in raising_rows(df) :
           /\ \A i \in raising : has_column(df, "Phone")
                                    /\ parser_called(cell(df, df.rows[i], "Phone"))
           /\ LET cleaned == clean_phone_numbers(df)
                  p == col_pos(df, "Phone")
              IN  stage("clean_phone_numbers",
                        [cleaned EXCEPT !.rows =
                            [i \in 1..Len(df.rows) |->
                                IF i \in raising
                                THEN [df.rows[i] EXCEPT !.cells[p] = strip(str(@))]
                                ELSE cleaned.rows[i]]],
                        "extract_emails")

extract_emails_raising ==
    /\ pc = "extract_emails"
    /\ \E raising \in raising_rows(df) :
           stage_unhandled("extract_emails", extract_emails(df), "clean_websites", raising)

clean_websites_raising ==
    /\ pc = "clean_websites"
    /\ \E raising \in raising_rows(df) :
           stage_unhandled("clean_websites", clean_websites(df),
                           "fill_missing_business_types", raising)

fill_missing_business_types_raising ==
    /\ pc = "fill_missing_business_types"
    /\ \E raising \in raising_rows(df) :
           stage_unhandled("fill_missing_business_types", fill_missing_business_types(df),
                           "extract_social_media_links", raising)

RaisingTables ==
    frames(<<"Business Name", "Address", "Phone", "Email", "Website", "Type">>,
           { <<"smith fnrl", " 12  Oak St, Troy, NY 12180", " 555-123-4567", "Info@Abc.com",
               "abc.com/", NaN>>,
             <<"Oak Cremation", NaN, "5551234", NaN, NaN, "Crematory">> },
           1, MaxRows)

InitRaising == \E d \in RaisingTables : start(d, "clean_business_names")

NextRaising ==
    \/ clean_business_names_raising
    \/ do_standardize_addresses
    \/ clean_phone_numbers_raising
    \/ extract_emails_raising
    \/ clean_websites_raising
    \/ fill_missing_business_types_raising
    \/ do_extract_social_media_links

SpecRaising == InitRaising /\ [][NextRaising]_vars

(***************************************************************************)
(* app.py: the query API over the table read from                          *)
(* funeral_services_data.csv.  The table df is a global of the module, all *)
(* request handlers work on it.                                            *)
(***************************************************************************)
\* the number of requests the API handles
MaxRequests == 3

\* None, what replace({np.nan: None}) puts for NaN
None == "<None>"

\* d.replace({np.nan: None}).to_dict('records')
to_dict_records(d) ==
    [i \in 1..Len(d.rows) |->
        [c \in { d.columns[j] : j \in 1..Len(d.columns) } |->
            IF isna(cell(d, d.rows[i], c)) THEN None ELSE cell(d, d.rows[i], c)]]

\* d[c].value_counts().to_dict(): the values that are not NaN, with the
\* number of rows that hold them
value_counts(d, c) ==
    [v \in { cell(d, d.rows[i], c) : i \in 1..Len(d.rows) } \ {NaN} |->
        Cardinality({ i \in 1..Len(d.rows) : cell(d, d.rows[i], c) = v })]

\* ,\s*([A-Z]{2})\s*\d*$ matches s at position i
state_at_end(s, i) ==
    /\ Ch(s, i) = ","
    /\ LET j == skip_spaces(s, i + 1)
       IN  /\ two_capitals_at(s, j)
           /\ all_chars(SubSeq(s, skip_spaces(s, j + 2), Len(s)), Digits)

\* Series.str.extract(r',\s*([A-Z]{2})\s*\d*$') for one value
str_extract(address) ==
    IF isna(address) THEN NaN
    ELSE LET matches == { i \in 1..Len(address) : state_at_end(address, i) }
         IN  IF matches = {} THEN NaN
             ELSE LET j == skip_spaces(address, least(matches) + 1)
                  IN  SubSeq(address, j, j + 1)

\* a request handler returns jsonify(json) and leaves d as the global df
respond(route, d, json) ==
    /\ api.at = "serving"
    /\ api.requests < MaxRequests
    /\ api' = [api EXCEPT !.df = d, !.requests = @ + 1,
                          !.response = [route |-> route, json |-> json]]
    /\ UNCHANGED <<df, original_df, pc, pass, done, before, first_out, errors, exports,
                   tags, scraper>>

\* GET /api/data
get_data ==
    /\ respond("/api/data", api.df, [data |-> to_dict_records(api.df)])

\* GET /api/stats
get_stats ==
    /\ api.at = "serving"
    /\ LET typeDistribution ==
               IF has_column(api.df, "Type") THEN value_counts(api.df, "Type") ELSE <<>>
           with_state ==
               IF has_column(api.df, "Address")
               THEN assign_column(api.df, "State",
                                  LAMBDA row : str_extract(cell(api.df, row, "Address")))
               ELSE api.df
           stateDistribution ==
               IF has_column(api.df, "Address")
               THEN value_counts(with_state, "State") ELSE <<>>
       IN  respond("/api/stats", with_state,
                   [typeDistribution |-> typeDistribution,
                    stateDistribution |-> stateDistribution])

\* the values of q the requests carry
Queries == {"", "Smith", "troy"}

\* Series.str.lower().str.contains(query) for one value
str_contains(v, query) == ~isna(v) /\ contains(lower(v), query)

\* GET /api/search?q=...
search ==
    /\ api.at = "serving"
    /\ \E q \in Queries :
           LET query == lower(q)
               filtered ==
                   { i \in 1..Len(api.df.rows) :
                       \/ str_contains(cell(api.df, api.df.rows[i], "Business Name"), query)
                       \/ str_contains(cell(api.df, api.df.rows[i], "Type"), query)
                       \/ str_contains(cell(api.df, api.df.rows[i], "Address"), query) }
           IN  IF query = ""
               THEN respond("/api/search", api.df, [data |-> to_dict_records(api.df)])
               ELSE respond("/api/search", api.df,
                            [data |-> to_dict_records(
                                [api.df EXCEPT !.rows = rows_at(api.df, filtered)])])

\* the tables funeral_services_data.csv holds: what clean_data returned,
\* written by to_csv and read by read_csv, which reads the sentinel as NaN
ApiRows ==
    { <<"Smith Funeral Home", "Funeral Home", "12 Oak St, Troy, NY 12180", "NY">>,
      <<"Smith Mortuary", "Mortuary", "9 Elm Rd, Troy, New York", "NY">>,
      <<"Oak Cremation Services", "Cremation Service", "4 Main St, Troy, NY", NaN>>,
      <<"Unknown Business", "Funeral Services", "PO Box 7", NaN>> }

ApiTables ==
    frames(<<"Business Name", "Type", "Address", "State">>, ApiRows, 0, MaxRows)
        \cup { drop_column(d, "State") :
                 d \in frames(<<"Business Name", "Type", "Address", "State">>, ApiRows, 1, 1) }

\* no FuneralDataProcessor has been constructed
no_processor ==
    /\ df = EmptyFrame
    /\ original_df = EmptyFrame
    /\ pc = "none"
    /\ pass = 1
    /\ done = <<>>
    /\ before = EmptyFrame
    /\ first_out = EmptyFrame
    /\ errors = <<>>
    /\ exports = NotExported
    /\ tags = <<>>

\* the module is imported: df = pd.read_csv('funeral_services_data.csv')
InitApi ==
    /\ \E d \in ApiTables :
           api = [at |-> "serving", df |-> d, loaded |-> d, requests |-> 0,
                  response |-> [route |-> "none"]]
    /\ no_processor
    /\ scraper = NotScraping

NextApi ==
    \/ get_data
    \/ get_stats
    \/ search

SpecApi == InitApi /\ [][NextApi]_vars

(***************************************************************************)
(* funeral_data_scraper.py: run_full_scrape.  What the pages hold and      *)
(* which requests and listings raise is a choice of the environment; the   *)
(* table self.data is modelled by the number of entries of each source.    *)
(***************************************************************************)
\* the largest limit_per_source
MaxLimit == 2
\* the largest number of listings on a page
MaxListings == 2

\* the scrape methods in the order run_full_scrape calls them, with the
\* 'Source' of their entries
ScrapeMethods ==
    << [name |-> "scrape_funeralwise", Source |-> "Funeralwise", by_city |-> FALSE],
       [name |-> "scrape_nfda", Source |-> "NFDA", by_city |-> FALSE],
       [name |-> "scrape_yelp", Source |-> "Yelp", by_city |-> TRUE],
       [name |-> "scrape_yellowpages", Source |-> "YellowPages", by_city |-> TRUE] >>

Sources == { ScrapeMethods[k].Source : k \in 1..Len(ScrapeMethods) }

\* _get_major_cities(state)
get_major_cities(state) ==
    CASE state = "CA" -> <<"Los Angeles", "San Francisco", "San Diego", "Sacramento">>
      [] state = "NY" -> <<"New York City", "Buffalo", "Rochester", "Syracuse">>
      [] state = "TX" -> <<"Houston", "Dallas", "Austin", "San Antonio">>
      [] state = "FL" -> <<"Miami", "Orlando", "Tampa", "Jacksonville">>
      [] OTHER -> <<>>

RECURSIVE city_pages(_)
\* the pages of a method that searches by city: for state in states, for
\* city in cities
city_pages(states) ==
    IF states = <<>> THEN <<>>
    ELSE LET cities == get_major_cities(Head(states))
         IN  [k \in 1..Len(cities) |-> <<Head(states), cities[k]>>]
                 \o city_pages(Tail(states))

\* the pages a scrape method requests, in order
pages(method, states) ==
    IF method.by_city THEN city_pages(states)
    ELSE [k \in 1..Len(states) |-> <<states[k]>>]

\* a page is requested: the request raises or finds no listing (the loop
\* over the listings does not run), or finds some listings
request_page(method) ==
    /\ scraper.listings = -1
    /\ scraper.page <= Len(pages(method, scraper.states))
    /\ \E found \in 0..MaxListings :
           scraper' = [scraper EXCEPT !.listings = found]

\* one turn of the loop over the listings: reading the listing raises and
\* the loop goes on, or the entry is appended and the limit is checked; the
\* break leaves the loop over the listings of this page
process_listing(method) ==
    /\ scraper.listings > 0
    /\ \/ scraper' = [scraper EXCEPT !.listings = @ - 1]
       \/ LET data == [scraper.data EXCEPT ![method.Source] = @ + 1]
          IN  IF scraper.limit_per_source # 0
                     /\ data[method.Source] >= scraper.limit_per_source
              THEN scraper' = [scraper EXCEPT !.data = data, !.listings = 0]
              ELSE scraper' = [scraper EXCEPT !.data = data, !.listings = @ - 1]

\* the loop over the listings has ended: the next state or city
next_page(method) ==
    /\ scraper.listings = 0
    /\ scraper' = [scraper EXCEPT !.page = @ + 1, !.listings = -1]

\* the loops over the states and cities have ended: the method returns
scrape_return(k) ==
    /\ scraper.listings = -1
    /\ scraper.page > Len(pages(ScrapeMethods[k], scraper.states))
    /\ scraper' = [scraper EXCEPT !.page = 1,
                                  !.at = IF k < Len(ScrapeMethods)
                                         THEN ScrapeMethods[k + 1].name
                                         ELSE "return"]

\* the scrape method that run_full_scrape calls at position k
scrape(k) ==
    /\ scraper.at = ScrapeMethods[k].name
    /\ \/ request_page(ScrapeMethods[k])
       \/ process_listing(ScrapeMethods[k])
       \/ next_page(ScrapeMethods[k])
       \/ scrape_return(k)
    /\ UNCHANGED <<df, original_df, pc, pass, done, before, first_out, errors, exports,
                   tags, api>>

scrape_funeralwise ==
    /\ scrape(1)

scrape_nfda ==
    /\ scrape(2)

scrape_yelp ==
    /\ scrape(3)

scrape_yellowpages ==
    /\ scrape(4)

\* the lists of states given to the scraper
ScrapeStates == { <<"NY">>, <<"AL", "NY">> }

\* FuneralDataScraper(states, limit_per_source) and the call of
\* run_full_scrape; limit_per_source 0 stands for 0 and for None, which the
\* limit check does not tell apart
FuneralDataScraper_init ==
    /\ \E states \in ScrapeStates, limit_per_source \in 0..MaxLimit :
           scraper = [at |-> "scrape_funeralwise", states |-> states,
                      limit_per_source |-> limit_per_source,
                      data |-> [source \in Sources |-> 0],
                      page |-> 1, listings |-> -1]
    /\ no_processor
    /\ api = NotServing

run_full_scrape ==
    \/ scrape_funeralwise
    \/ scrape_nfda
    \/ scrape_yelp
    \/ scrape_yellowpages

SpecScrape == FuneralDataScraper_init /\ [][run_full_scrape]_vars

(***************************************************************************)
(* standardize_column_names alone, on tables of one record whose header    *)
(* holds synonyms, canonical labels and other labels.                      *)
(***************************************************************************)
\* the largest number of columns of the input
MaxColumns == 3

ColumnLabels ==
    {"Business Name", "name", "company", "Phone", "Phone_Number", "phone_number",
     "Address", "Notes"}

\* the headers read_csv can return: no label occurs twice
ColumnHeaders ==
    { h \in UNION { [1..k -> ColumnLabels] : k \in 1..MaxColumns } :
        \A i, j \in 1..Len(h) : i # j => h[i] # h[j] }

InitColumns ==
    \E h \in ColumnHeaders :
        start(frame(h, << [i \in 1..Len(h) |-> "v" \o h[i]] >>), "standardize_column_names")

SpecColumns == InitColumns /\ [][do_standardize_column_names]_vars

(***************************************************************************)
(* clean_business_names alone, on a table of one record.                   *)
(***************************************************************************)
NameCleanInputs ==
    { first \o kind \o suffix :
        first \in {"Smith", "Lincoln", "Scott", "Oak", "Costa", " smith"},
        kind \in {" Funeral", " Cremation", " Funeral Home", " Mortuary", " Chapel", " fnrl"},
        suffix \in {"", " Inc", " LLC", " Co", ", Ltd", " Company", " Svc"} }

InitName ==
    \E n \in NameCleanInputs \cup {NaN} :
        start(frame(<<"Business Name", "Address">>, << <<n, "12 Oak St">> >>),
              "clean_business_names")

SpecName == InitName /\ [][do_clean_business_names]_vars

(***************************************************************************)
(* remove_duplicates alone, on reconciled tables that have a column        *)
(* which is no canonical field.                                            *)
(***************************************************************************)
NotesTables ==
    { standardize_column_names(d) :
        d \in frames(<<"Business Name", "Address", "Phone", "Notes">>,
                     { <<n, "12 Oak St, Troy, NY", p, notes>> :
                         n \in {"ABC Funeral Home", "Abc Funeral Home Inc"},
                         p \in {NaN, "555-123-4567"},
                         notes \in {NaN, "open 24h"} },
                     1, MaxRows) }

InitNotes == \E d \in NotesTables : start(d, "remove_duplicates")

SpecNotes == InitNotes /\ [][do_remove_duplicates]_vars

(***************************************************************************)
(* standardize_addresses alone, with every outcome of the address parser.  *)
(***************************************************************************)
AddressStageInputs ==
    {" 12  Oak St, Troy, NY 12180", "9 Elm Rd, Troy, New York", "PO Box 7 ", NaN, NA}

InitAddress ==
    \E d \in frames(<<"Business Name", "Address">>,
                    { <<"Smith Mortuary", a>> : a \in AddressStageInputs }, 1, MaxRows) :
        start(d, "standardize_addresses")

SpecAddress == InitAddress /\ [][do_standardize_addresses]_vars

(***************************************************************************)
(* The claims.                                                             *)
(***************************************************************************)
\* the stage that ran last in the current call of clean_data, or ""
last_stage == IF done = <<>> THEN "" ELSE done[Len(done)]

\* the given stage has just run: before is its input and df its output
after(name) == last_stage = name

\* clean_data has run its stages on a non-empty table and returns
returned == pc = "return" /\ done # <<>>

\* the canonical fields, by the labels the code gives them
CanonicalFields ==
    {"Business Name", "Type", "Address", "Phone", "Email", "Website", "Contact Person",
     "Social Media", "Size", "Google Rating", "State", "City", "Source"}

\* C1: the stages of clean_data run in the order reconciliation, name,
\* address, phone, email and website canonicalization, deduplication, type
\* inference, social media fill; remove_duplicates never runs before
\* clean_business_names and standardize_addresses have run.
ClaimedOrder ==
    <<"standardize_column_names", "clean_business_names", "standardize_addresses",
      "clean_phone_numbers", "extract_emails", "clean_websites", "remove_duplicates",
      "fill_missing_business_types", "extract_social_media_links">>

C1_StageOrder ==
    /\ Len(done) <= Len(ClaimedOrder) /\ done = SubSeq(ClaimedOrder, 1, Len(done))
    /\ \A i \in 1..Len(done) :
          done[i] = "remove_duplicates" =>
              /\ \E j \in 1..(i - 1) : done[j] = "clean_business_names"
              /\ \E j \in 1..(i - 1) : done[j] = "standardize_addresses"

\* the Business Name of every row of a table, in row order
business_names(d) == [i \in 1..Len(d.rows) |-> cell(d, d.rows[i], "Business Name")]

\* C2: clean_data run on its own output merges no further records and
\* leaves the Business Name of every record as it is.
C2_Idempotent ==
    (pass = 2 /\ returned) =>
        /\ Len(df.rows) = Len(first_out.rows)
        /\ business_names(df) = business_names(first_out)

\* the matching keys of the rows of a table
key_of(d, i) == generate_matching_key(d, d.rows[i])
keys(d) == { key_of(d, i) : i \in 1..Len(d.rows) }

\* C3: after remove_duplicates every matching key of the input has exactly
\* one record in the output, and no two output records have the same key.
C3_OneRecordPerKey ==
    after("remove_duplicates") =>
        /\ keys(df) = keys(before)
        /\ \A i, j \in 1..Len(df.rows) : key_of(df, i) = key_of(df, j) => i = j

\* two different input records with one key were resolved, beside another group
C3_Witness ==
    /\ after("remove_duplicates")
    /\ Len(df.rows) >= 2
    /\ \E i, j \in 1..Len(before.rows) :
          /\ before.rows[i].cells # before.rows[j].cells
          /\ key_of(before, i) = key_of(before, j)

\* the completeness score of row i of a table
score_of(d, i) == completeness_score(d, d.rows[i])

\* C4: the record kept for a matching key has a completeness score at least
\* that of every input record with this key, and of the records with the
\* highest score it is the first in input order.
C4_MostCompleteFirstKept ==
    after("remove_duplicates") =>
        \A r \in 1..Len(df.rows), q \in 1..Len(before.rows) :
            key_of(before, q) = key_of(df, r) =>
                /\ score_of(before, q) <= score_of(df, r)
                /\ score_of(before, q) = score_of(df, r) =>
                       df.rows[r].index <= before.rows[q].index

\* a group of three: a less complete record first, then two different records
\* that tie for the highest score, of which the earlier one is kept
C4_Witness ==
    /\ after("remove_duplicates")
    /\ \E r \in 1..Len(df.rows), q, l \in 1..Len(before.rows) :
          /\ key_of(before, q) = key_of(df, r) /\ key_of(before, l) = key_of(df, r)
          /\ before.rows[q].cells # df.rows[r].cells
          /\ score_of(before, q) = score_of(df, r)
          /\ before.rows[q].index > df.rows[r].index
          /\ score_of(before, l) < score_of(df, r)
          /\ before.rows[l].index < df.rows[r].index

\* the words of a name, in lower case, without the stop-words
content_words(name) ==
    SelectSeq(words(lower(str(name))),
              LAMBDA w : w \notin {"funeral", "home", "services", "inc", "llc"})

\* the first comma-delimited segment of an address
first_segment(address) == split(str(address), ",")[1]

\* rows i and j of d: the names differ only in letter case and in
\* stop-words, and the first address segments are equal
same_entity(d, i, j) ==
    /\ content_words(cell(d, d.rows[i], "Business Name"))
           = content_words(cell(d, d.rows[j], "Business Name"))
    /\ first_segment(cell(d, d.rows[i], "Address"))
           = first_segment(cell(d, d.rows[j], "Address"))

\* C5: two records whose names differ only in letter case and in stop-words
\* and whose first address segments are equal have the same matching key,
\* and remove_duplicates leaves a single record for it.
C5_CaseAndStopWordsCollapse ==
    after("remove_duplicates") =>
        \A i, j \in 1..Len(before.rows) :
            same_entity(before, i, j) =>
                /\ key_of(before, i) = key_of(before, j)
                /\ Cardinality({ r \in 1..Len(df.rows) :
                                   key_of(df, r) = key_of(before, i) }) = 1

\* two records with differently written names and different addresses collapsed
C5_Witness ==
    /\ after("remove_duplicates")
    /\ Len(df.rows) = 1
    /\ \E i, j \in 1..Len(before.rows) :
          /\ same_entity(before, i, j)
          /\ cell(before, before.rows[i], "Business Name")
                 # cell(before, before.rows[j], "Business Name")
          /\ lower(cell(before, before.rows[i], "Business Name"))
                 # lower(cell(before, before.rows[j], "Business Name"))
          /\ cell(before, before.rows[i], "Address") # cell(before, before.rows[j], "Address")

\* C6: after clean_data every canonical field is a column, and every cell
\* of it is a string, never the missing value.
C6_AllFieldsStrings ==
    returned =>
        \A c \in CanonicalFields :
            /\ has_column(df, c)
            /\ \A i \in 1..Len(df.rows) : ~isna(cell(df, df.rows[i], c))

\* C7: the columns of the table clean_data returns are exactly the
\* canonical fields.
C7_ExactlyCanonicalColumns ==
    returned =>
        /\ { df.columns[i] : i \in 1..Len(df.columns) } = CanonicalFields
        /\ Len(df.columns) = Cardinality(CanonicalFields)

\* the Phone of row i
phone_of(d, i) == cell(d, d.rows[i], "Phone")

\* the digits of a phone value
digits_of(v) == filter_chars(str(v), Digits)

\* ^\(\d{3}\) \d{3}-\d{4}$
is_phone_format(s) ==
    /\ Len(s) = 14
    /\ Ch(s, 1) = "(" /\ Ch(s, 5) = ")" /\ Ch(s, 6) = " " /\ Ch(s, 10) = "-"
    /\ \A i \in {2, 3, 4, 7, 8, 9, 11, 12, 13, 14} : IsDigit(Ch(s, i))

\* the reference rule for a phone string
phone_reference(input) ==
    LET d == digits_of(input)
        n == Len(d)
        ten == IF n = 11 /\ Ch(d, 1) = "1" THEN SubSeq(d, 2, 11) ELSE SubSeq(d, n - 9, n)
    IN  IF n < 10 THEN strip(input)
        ELSE "(" \o SubSeq(ten, 1, 3) \o ") " \o SubSeq(ten, 4, 6) \o "-" \o SubSeq(ten, 7, 10)

\* a phone value with 10 digits, or with 11 digits of which the first is 1
ten_digit_number(v) ==
    \/ Len(digits_of(v)) = 10
    \/ Len(digits_of(v)) = 11 /\ Ch(digits_of(v), 1) = "1"

\* C8: standardize_phone agrees with the reference rule on every input that
\* is not the sentinel, and gives the form (AAA) BBB-CCCC for every input
\* with 10 digits, or 11 digits and a leading 1.
C8_PhoneReferenceRule ==
    after("clean_phone_numbers") =>
        \A i \in 1..Len(df.rows) :
            ~(isna(phone_of(before, i)) \/ phone_of(before, i) = NA) =>
                /\ phone_of(df, i) = phone_reference(phone_of(before, i))
                /\ ten_digit_number(phone_of(before, i)) => is_phone_format(phone_of(df, i))

\* a number written with a country code and punctuation was formatted
C8_Witness ==
    /\ after("clean_phone_numbers")
    /\ \E i \in 1..Len(df.rows) :
          /\ ~isna(phone_of(before, i))
          /\ Len(digits_of(phone_of(before, i))) = 11
          /\ Ch(digits_of(phone_of(before, i)), 1) = "1"
          /\ Len(phone_of(before, i)) > 11
          /\ is_phone_format(phone_of(df, i))

\* C9 as claimed: after clean_phone_numbers every Phone is the sentinel or
\* has the form (XXX) XXX-XXXX.
C9_PhoneSentinelOrFormat ==
    after("clean_phone_numbers") =>
        \A i \in 1..Len(df.rows) :
            phone_of(df, i) = NA \/ is_phone_format(phone_of(df, i))

\* C9 as amended: after clean_phone_numbers every Phone is the sentinel, or
\* has the form (XXX) XXX-XXXX, or is the trimmed input, which then holds
\* fewer than 10 digits.
C9_PhoneSentinelFormatOrShort ==
    after("clean_phone_numbers") =>
        \A i \in 1..Len(df.rows) :
            \/ phone_of(df, i) = NA
            \/ is_phone_format(phone_of(df, i))
            \/ /\ Len(digits_of(phone_of(before, i))) < 10
               /\ phone_of(df, i) = strip(str(phone_of(before, i)))

\* a number of fewer than 10 digits came back trimmed and not formatted
C9_Witness ==
    /\ after("clean_phone_numbers")
    /\ \E i \in 1..Len(df.rows) :
          /\ ~isna(phone_of(before, i))
          /\ Len(digits_of(phone_of(before, i))) \in 1..9
          /\ phone_of(df, i) = strip(phone_of(before, i))
          /\ phone_of(df, i) # phone_of(before, i)
          /\ ~is_phone_format(phone_of(df, i))

\* the Email of row i
email_of(d, i) == cell(d, d.rows[i], "Email")

\* s as a whole is local-part@domain.tld
is_email_address(s) ==
    \E at \in 2..Len(s), dot \in 1..Len(s) :
        /\ Ch(s, at) = "@"
        /\ all_chars(SubSeq(s, 1, at - 1), LocalChars)
        /\ dot > at + 1 /\ Ch(s, dot) = "."
        /\ all_chars(SubSeq(s, at + 1, dot - 1), DomainChars)
        /\ Len(s) >= dot + 2
        /\ all_chars(SubSeq(s, dot + 1, Len(s)), Letters)

\* C10: after extract_emails every Email is the sentinel or a lower-case
\* string that as a whole is a valid email address.
C10_EmailSentinelOrValid ==
    after("extract_emails") =>
        \A i \in 1..Len(df.rows) :
            \/ email_of(df, i) = NA
            \/ /\ email_of(df, i) = lower(email_of(df, i))
               /\ is_email_address(email_of(df, i))

\* some substring of s is local-part@domain.tld
has_email_substring(s) ==
    \E at \in 2..Len(s), dot \in 1..Len(s) :
        /\ Ch(s, at) = "@" /\ Ch(s, at - 1) \in LocalChars
        /\ dot > at + 1 /\ Ch(s, dot) = "."
        /\ all_chars(SubSeq(s, at + 1, dot - 1), DomainChars)
        /\ dot + 2 <= Len(s)
        /\ Ch(s, dot + 1) \in Letters /\ Ch(s, dot + 2) \in Letters

\* C11: validate_email maps an input that is a valid email address between
\* optional blanks, in any letter case, to its trimmed lower-case form, and
\* an input without any substring of the email pattern to the sentinel.
C11_ValidLoweredInvalidSentinel ==
    after("extract_emails") =>
        \A i \in 1..Len(df.rows) :
            /\ (~isna(email_of(before, i)) /\ is_email_address(strip(email_of(before, i))))
                   => email_of(df, i) = lower(strip(email_of(before, i)))
            /\ ~has_email_substring(str(email_of(before, i))) => email_of(df, i) = NA

\* an address with capital letters and blanks around it was trimmed and lowered
C11_Witness ==
    /\ after("extract_emails")
    /\ \E i \in 1..Len(df.rows) :
          /\ ~isna(email_of(before, i))
          /\ is_email_address(strip(email_of(before, i)))
          /\ strip(email_of(before, i)) # email_of(before, i)
          /\ lower(email_of(before, i)) # email_of(before, i)
          /\ email_of(df, i) = lower(strip(email_of(before, i)))

\* the Website of row i
website_of(d, i) == cell(d, d.rows[i], "Website")

\* s starts with a host: characters of a domain, a dot and two letters
starts_with_host(s) ==
    \E dot \in 2..Len(s) :
        /\ Ch(s, dot) = "." /\ all_chars(SubSeq(s, 1, dot - 1), DomainChars)
        /\ dot + 2 <= Len(s)
        /\ Ch(s, dot + 1) \in Letters /\ Ch(s, dot + 2) \in Letters

\* s is http:// or https:// followed by a host, and does not end with /
is_absolute_url(s) ==
    /\ \/ startswith(s, "http://") /\ starts_with_host(SubSeq(s, 8, Len(s)))
       \/ startswith(s, "https://") /\ starts_with_host(SubSeq(s, 9, Len(s)))
    /\ Ch(s, Len(s)) # "/"

\* C12: after clean_websites every Website is the sentinel, or begins with
\* http:// or https://, has a host with a dot and a top-level domain after
\* it, and does not end with a slash.
C12_WebsiteSentinelOrAbsolute ==
    after("clean_websites") =>
        \A i \in 1..Len(df.rows) :
            website_of(df, i) = NA \/ is_absolute_url(website_of(df, i))

\* a URL with a scheme, a path and trailing slashes was accepted
C12_Witness ==
    /\ after("clean_websites")
    /\ \E i \in 1..Len(df.rows) :
          /\ ~isna(website_of(before, i))
          /\ startswith(strip(website_of(before, i)), "https://")
          /\ Ch(strip(website_of(before, i)), Len(strip(website_of(before, i)))) = "/"
          /\ website_of(df, i) # NA
          /\ Len(website_of(df, i)) < Len(strip(website_of(before, i)))

\* s as a whole is a domain: [a-zA-Z0-9.-]+\.[a-zA-Z]{2,}
is_domain(s) ==
    \E dot \in 2..Len(s) :
        /\ Ch(s, dot) = "." /\ all_chars(SubSeq(s, 1, dot - 1), DomainChars)
        /\ dot + 2 <= Len(s)
        /\ all_chars(SubSeq(s, dot + 1, Len(s)), Letters)

\* the name of the scheme s carries: the text before the first "://" when
\* it is a letter followed by letters, digits, "+", "-" and ".", else ""
scheme_of(s) ==
    LET at == { i \in 2..Len(s) : OccursAt(s, "://", i) }
        first == CHOOSE i \in at : \A j \in at : i <= j
    IN  IF at # {} /\ Ch(s, 1) \in Letters
           /\ all_chars(SubSeq(s, 1, first - 1), Letters \cup Digits \cup {"+", "-", "."})
        THEN SubSeq(s, 1, first - 1)
        ELSE ""

\* C13: standardize_url maps a domain without scheme, with or without
\* trailing slashes, to http:// and the domain, and maps every input with
\* a scheme other than http and https to the sentinel.
C13_SchemelessDomainOtherScheme ==
    after("clean_websites") =>
        \A i \in 1..Len(df.rows) :
            ~isna(website_of(before, i)) =>
                LET u == strip(website_of(before, i))
                IN  /\ is_domain(rstrip_char(u, "/"))
                        => website_of(df, i) = "http://" \o rstrip_char(u, "/")
                    /\ (scheme_of(u) # "" /\ lower(scheme_of(u)) \notin {"http", "https"})
                        => website_of(df, i) = NA

\* the Type of row i
type_of(d, i) == cell(d, d.rows[i], "Type")

\* the reference rule for the type of a record: the first rule that applies
type_reference(name, type) ==
    LET n == lower(str(name))
        rules == << <<contains(n, "cremation") \/ contains(n, "crematory"),
                      "Cremation Service">>,
                    <<contains(n, "memorial") /\ contains(n, "funeral"),
                      "Hybrid (Funeral & Memorial)">>,
                    <<contains(n, "memorial"), "Memorial Service">>,
                    <<contains(n, "mortuary"), "Mortuary">>,
                    <<contains(n, "cemetery"), "Cemetery">>,
                    <<contains(n, "chapel"), "Funeral Chapel">>,
                    <<contains(n, "funeral"), "Funeral Home">>,
                    <<TRUE, "Funeral Services">> >>
        first == CHOOSE k \in 1..Len(rules) :
                     rules[k][1] /\ \A j \in 1..(k - 1) : ~rules[j][1]
    IN  IF ~isna(type) /\ type # NA THEN type ELSE rules[first][2]

\* C14: determine_type agrees with the reference rule: a Type that is not
\* the sentinel stays, otherwise the first rule that matches the lower-case
\* Business Name gives the Type.
C14_TypeReferenceRule ==
    after("fill_missing_business_types") =>
        \A i \in 1..Len(df.rows) :
            type_of(df, i) = type_reference(cell(before, before.rows[i], "Business Name"),
                                            type_of(before, i))

\* a name with memorial, funeral and chapel and no Type became Hybrid
C14_Witness ==
    /\ after("fill_missing_business_types")
    /\ \E i \in 1..Len(df.rows) :
          LET n == lower(str(cell(before, before.rows[i], "Business Name")))
          IN  /\ contains(n, "memorial") /\ contains(n, "funeral") /\ contains(n, "chapel")
              /\ type_of(before, i) = NA
              /\ type_of(df, i) = "Hybrid (Funeral & Memorial)"

\* the Business Name of row i
name_of(d, i) == cell(d, d.rows[i], "Business Name")

\* C15: after clean_business_names no Business Name is empty, and a
\* missing, sentinel, empty or blank source name has become
\* "Unknown Business".
C15_NameNeverEmpty ==
    after("clean_business_names") =>
        \A i \in 1..Len(df.rows) :
            /\ name_of(df, i) # ""
            /\ (isna(name_of(before, i)) \/ name_of(before, i) = NA
                \/ strip(str(name_of(before, i))) = "")
                   => name_of(df, i) = "Unknown Business"

\* the State and the City of row i
state_of(d, i) == cell(d, d.rows[i], "State")
city_of(d, i) == cell(d, d.rows[i], "City")

\* the two-letter postal abbreviations of the US states and DC
PostalAbbreviations == { state_names[k][2] : k \in 1..Len(state_names) }

\* C16: after clean_data every State is the sentinel or a two-letter US
\* postal abbreviation.
C16_StateSentinelOrAbbreviation ==
    returned =>
        \A i \in 1..Len(df.rows) :
            has_column(df, "State") /\ state_of(df, i) \in PostalAbbreviations \cup {NA}

\* column c is no column of d, or holds only missing values and sentinels
absent_or_blank(d, c) ==
    has_column(d, c) =>
        \A i \in 1..Len(d.rows) :
            isna(cell(d, d.rows[i], c)) \/ cell(d, d.rows[i], c) = NA

\* C17: when the input has no State (City) column, or only missing values
\* and sentinels in it, clean_data derives State (City) of every record
\* from its Address.
C17_StateCityDerived ==
    (returned /\ pass = 1) =>
        /\ absent_or_blank(original_df, "State") =>
               \A i \in 1..Len(df.rows) :
                   state_of(df, i) = extract_state(cell(df, df.rows[i], "Address"))
        /\ absent_or_blank(original_df, "City") =>
               \A i \in 1..Len(df.rows) :
                   city_of(df, i) = extract_city(cell(df, df.rows[i], "Address"))

\* C18: clean_data on a table without rows returns a table without rows
\* whose columns are the canonical fields.
C18_ZeroRowsCanonicalColumns ==
    (pc = "return" /\ done = <<>> /\ pass = 1) =>
        /\ df.rows = <<>>
        /\ { df.columns[i] : i \in 1..Len(df.columns) } = CanonicalFields

\* the number of load errors logged
load_errors == Cardinality({ k \in 1..Len(errors) : errors[k] = "Error loading input file" })

\* C19: when the input file cannot be loaded the constructor does not
\* raise, the error is logged once, the table is empty, and clean_data
\* returns the empty table without raising.
C19_LoadFailureGivesEmptyTable ==
    /\ pc # "raised"
    /\ load_errors <= 1
    /\ load_errors = 1 =>
           /\ df = EmptyFrame
           /\ pc \in {"clean_data", "return"}
           /\ pc = "return" => done = <<>>

\* the load failed and clean_data has returned the empty table
C19_Witness ==
    /\ load_errors = 1
    /\ pc = "return"
    /\ df = EmptyFrame
    /\ errors = <<"Error loading input file", "No data to clean">>

\* C20: an export method whose write fails returns None and does not
\* raise, the table stays as it was, and a returned path stands for a
\* completely written file.
C20_ExportFailureReported ==
    /\ pc # "raised"
    /\ df = before
    /\ \A m \in DOMAIN exports :
          /\ exports[m].call = "failed" => exports[m].returned = "None"
          /\ exports[m].returned = "path" => exports[m].file = "complete"

\* the CSV write failed half way and the Excel write succeeded
C20_Witness ==
    /\ exports["export_to_csv"] = [file |-> "partial", call |-> "failed", returned |-> "None"]
    /\ exports["export_to_excel"].returned = "path"
    /\ Len(errors) = 1
    /\ df.rows # <<>>

C22_ServedTableUnchanged ==
    api.at = "serving" =>
        /\ api.df = api.loaded
        /\ api.response.route \in {"/api/data", "/api/search"} =>
               \A i \in 1..Len(api.response.json.data) :
                   \E k \in 1..Len(api.loaded.rows) :
                       api.response.json.data[i] = to_dict_records(api.loaded)[k]

\* C23: with limit_per_source set to L, the number of collected entries
\* of each source is at most L at every point of run_full_scrape.
C23_LimitPerSource ==
    (scraper.at # "none" /\ scraper.limit_per_source > 0) =>
        \A source \in Sources : scraper.data[source] <= scraper.limit_per_source

\* the canonical name the synonym table gives for the lower-cased label k,
\* or "" when k is no entry of the table
canonical_name(k) ==
    IF \E e \in 1..Len(standard_columns) : standard_columns[e][1] = k
    THEN standard_columns[CHOOSE e \in 1..Len(standard_columns) :
                              standard_columns[e][1] = k][2]
    ELSE ""

\* C24: after standardize_column_names every source column whose
\* lower-cased name is an entry of the synonym table carries the canonical
\* name of that entry, also when two source columns differ only in case.
C24_EverySynonymRenamed ==
    after("standardize_column_names") =>
        \A i \in 1..Len(before.columns) :
            canonical_name(lower(before.columns[i])) # "" =>
                df.columns[i] = canonical_name(lower(before.columns[i]))

\* C25: after standardize_column_names no two columns have the same name.
C25_ColumnNamesDistinct ==
    after("standardize_column_names") =>
        \A i, j \in 1..Len(df.columns) : i # j => df.columns[i] # df.columns[j]

\* a legal-entity suffix is a word of the name
has_suffix_word(name) ==
    \E k \in 1..Len(LegalSuffixes), i \in 1..Len(name) :
        MatchWordAt(lower(name), lower(LegalSuffixes[k]), i)

\* what the suffix rule appends to a name
expected_ending(name) ==
    IF has_suffix_word(name) \/ contains(lower(name), "funeral home")
           \/ contains(lower(name), "mortuary")
    THEN ""
    ELSE IF contains(lower(name), "funeral") THEN " Home"
    ELSE IF contains(lower(name), "cremation") THEN " Services"
    ELSE ""

\* C26: clean_name appends " Home" to a name with "Funeral", and
\* " Services" to a name with "Cremation" and without "Funeral", when the
\* name has no legal-entity suffix as a word and neither "Funeral Home" nor
\* "Mortuary"; it appends nothing otherwise.  Stated for the names that
\* the capitalization and the abbreviations leave as they are.
C26_SuffixRule ==
    after("clean_business_names") =>
        \A i \in 1..Len(df.rows) :
            LET name == cell(before, before.rows[i], "Business Name")
                cleaned == cell(df, df.rows[i], "Business Name")
            IN  (~isna(name) /\ startswith(cleaned, name)) =>
                    cleaned = name \o expected_ending(name)

\* C27: when the Email input contains an email address somewhere inside,
\* validate_email returns an embedded address in lower case and not the
\* sentinel.
C27_EmbeddedEmailExtracted ==
    after("extract_emails") =>
        \A i \in 1..Len(df.rows) :
            (~isna(email_of(before, i)) /\ has_email_substring(email_of(before, i))) =>
                /\ email_of(df, i) # NA
                /\ has_email_substring(email_of(df, i))
                /\ contains(lower(email_of(before, i)), email_of(df, i))

\* the number of canonical fields of row i that hold a value
canonical_score(d, i) ==
    Cardinality({ c \in CanonicalFields :
                    has_column(d, c) /\ is_populated(cell(d, d.rows[i], c)) })

\* C28: the completeness score counts the populated canonical fields only:
\* the record kept for a matching key has at least as many populated
\* canonical fields as every input record with this key, and of the records
\* with the most it is the first in input order, whatever the other columns
\* hold.
C28_ScoreCountsCanonicalFields ==
    after("remove_duplicates") =>
        \A r \in 1..Len(df.rows), q \in 1..Len(before.rows) :
            key_of(before, q) = key_of(df, r) =>
                /\ canonical_score(before, q) <= canonical_score(df, r)
                /\ canonical_score(before, q) = canonical_score(df, r) =>
                       df.rows[r].index <= before.rows[q].index

\* C29: remove_duplicates only selects: every output record is an input
\* record with all its values, the output has no more records than the
\* input, and the columns are the columns of the input, without the
\* temporary matching_key.
C29_OnlySelects ==
    after("remove_duplicates") =>
        /\ \A r \in 1..Len(df.rows) :
               \E q \in 1..Len(before.rows) : df.rows[r] = before.rows[q]
        /\ Len(df.rows) <= Len(before.rows)
        /\ df.columns = before.columns
        /\ ~has_column(df, "matching_key")

\* of three input records two different ones were merged and one was kept
\* as it is
C29_Witness ==
    /\ after("remove_duplicates")
    /\ Len(before.rows) = 3
    /\ Len(df.rows) = 2
    /\ \A i, j \in 1..3 : i # j => before.rows[i].cells # before.rows[j].cells
    /\ \A r \in 1..2 : \E q \in 1..3 : df.rows[r] = before.rows[q]

\* the Address of row i
address_of(d, i) == cell(d, d.rows[i], "Address")

\* C30: standardize_address never fails a record: the stage ends without
\* raising and with every record in its place; a missing or sentinel
\* Address becomes "N/A"; when the parser raises, and when it returns no
\* usable component, the Address is the trimmed original string.
C30_AddressNeverFails ==
    /\ pc # "raised"
    /\ after("standardize_addresses") =>
           /\ Len(df.rows) = Len(before.rows)
           /\ \A i \in 1..Len(df.rows) :
                  /\ df.rows[i].index = before.rows[i].index
                  /\ cell(df, df.rows[i], "Business Name")
                         = cell(before, before.rows[i], "Business Name")
                  /\ ~parser_called(address_of(before, i)) => address_of(df, i) = "N/A"
                  /\ (parser_called(address_of(before, i))
                        /\ (tags[i].raised \/ tags[i].parsed = NoComponents))
                         => address_of(df, i) = strip(address_of(before, i))

\* the parser raised on the first record, whose Address was trimmed, and
\* parsed the second, whose Address was rebuilt from the components
C30_Witness ==
    /\ after("standardize_addresses")
    /\ Len(df.rows) = 2
    /\ tags[1].raised
    /\ address_of(before, 1) = " 12  Oak St, Troy, NY 12180"
    /\ address_of(df, 1) = "12  Oak St, Troy, NY 12180"
    /\ ~tags[2].raised
    /\ address_of(before, 2) = " 12  Oak St, Troy, NY 12180"
    /\ address_of(df, 2) = "12 Oak St, Troy, NY 12180"

====
